---- MODULE Spec2Model ----
(***************************************************************************)
(* Model of elftools/elf/dynamic.py (Dynamic, DynamicTag,                  *)
(* DynamicRelocations, DynamicSymbols) and of scripts/coreplt.py (the PLT  *)
(* hook detector).                                                         *)
(*                                                                         *)
(* The byte stream of the ELF image is modelled as typed cells keyed by    *)
(* their byte offset: dynamic entries, C strings, symbols, relocations and *)
(* pointer-sized slots.  An offset inside the file that holds no cell of   *)
(* the kind being read reads as zero bytes; an offset at or past the end   *)
(* of the file makes the read fail.                                        *)
(***************************************************************************)
EXTENDS Integers, Sequences, FiniteSets, TLC

VARIABLES
    elf,        \* the ELFFile: loadbase, segments and the stream's cells
    mappings,   \* the memory regions parsed from stdin (coreplt.py)
    offset,     \* Dynamic._offset of every tag store
    cache,      \* Dynamic._cache of every tag store
    numTags,    \* Dynamic._num_tags of every tag store
    gen,        \* per store and key: DynamicTag objects built by __getitem__
    last,       \* the last call made on a tag store and what it did
    pc,         \* coreplt.py: position of the main program
    segIdx,     \* coreplt.py: index of `seg` in elf.iter_segments()
    soname,     \* coreplt.py: soname
    deps,       \* coreplt.py: deps
    hooks,      \* coreplt.py: hooks (dict fnaddr -> symbol name)
    symtab,     \* coreplt.py: symtab (DynamicSymbols)
    symIdx,     \* coreplt.py: i of the symbol walk
    jmprel,     \* coreplt.py: tag.jmprel (DynamicRelocations)
    relIdx,     \* coreplt.py: index of `reloc` in iter_relocations()
    out,        \* lines written to standard output
    exc         \* the uncaught exception that ended the run, if any

vars == <<elf, mappings, offset, cache, numTags, gen, last, pc, segIdx,
          soname, deps, hooks, symtab, symIdx, jmprel, relIdx, out, exc>>

storeVars == <<offset, cache, numTags, gen, last>>
runVars == <<pc, segIdx, soname, deps, hooks, symtab, symIdx, jmprel, relIdx,
             out, exc>>

----------------------------------------------------------------------------
(* Bounds of the model *)

\* number of Elf_Dyn records of the stream the tag-store operations run on
StreamLen == 3
\* number of relocation records of the PLT relocation table (hook detector)
MaxRelocs == 2
\* largest byte size of a relocation table num_relocations is applied to
MaxRelSize == 60

(* Record sizes of the 64-bit ELF class (elffile.structs) *)
TagSize == 16
RelaSize == 24
RelSize == 16
SymSize == 24
PtrSize == 8

----------------------------------------------------------------------------
(* elftools/elf/dynamic.py: the tag sets of DynamicTag *)

_HANDLED_TAGS == {"DT_NEEDED", "DT_RPATH", "DT_RUNPATH", "DT_SONAME",
                  "DT_SUNW_FILTER"}

_MANGLED_TAGS == {"DT_HASH", "DT_GNU_HASH", "DT_STRTAB", "DT_SYMTAB",
                  "DT_DEBUG", "DT_PLTGOT", "DT_JMPREL", "DT_RELA",
                  "DT_VERSYM", "DT_REL"}

_REL_TAGS == {"DT_REL", "DT_RELA", "DT_JMPREL"}

----------------------------------------------------------------------------
(* The stream and the ELFFile services dynamic.py and coreplt.py call *)

Dyn(t, p) == [d_tag |-> t, d_ptr |-> p]
EofEntry == Dyn("<eof>", 0)

\* struct_parse(Elf_Dyn, stream, stream_pos = off)
ReadDyn(e, off) ==
    IF off + TagSize > e.size THEN EofEntry
    ELSE IF off \in DOMAIN e.dyn THEN e.dyn[off]
    ELSE Dyn("DT_NULL", 0)

\* parse_cstring_from_stream(stream, off)
ReadStr(e, off) ==
    IF off \in DOMAIN e.strs THEN e.strs[off] ELSE ""

Sym(n, v) == [st_name |-> n, st_value |-> v]
EofSym == Sym(-1, -1)

\* struct_parse(Elf_Sym, stream, stream_pos = off)
ReadSym(e, off) ==
    IF off < 0 \/ off + SymSize > e.size THEN EofSym
    ELSE IF off \in DOMAIN e.syms THEN e.syms[off]
    ELSE Sym(0, 0)

Rel(o, s) == [r_offset |-> o, r_info_sym |-> s]
EofRel == Rel(-1, -1)

\* struct_parse(Elf_Rela, stream, stream_pos = off), wrapped in Relocation
ReadRel(e, off) ==
    IF off < 0 \/ off + RelaSize > e.size THEN EofRel
    ELSE IF off \in DOMAIN e.rels THEN e.rels[off]
    ELSE Rel(0, 0)

\* stream.seek(off); stream.read(elfclass/8), unpacked little-endian; a short
\* read gives -1 (coreplt.py:72-80)
ReadPtr(e, off) ==
    IF off + PtrSize > e.size THEN -1
    ELSE IF off \in DOMAIN e.ptrs THEN e.ptrs[off]
    ELSE 0

NoSegment == [p_type |-> "None", p_vaddr |-> 0, p_offset |-> 0, p_memsz |-> 0]

Covers(e, s, addr) ==
    /\ s.p_type = "PT_LOAD"
    /\ s.p_vaddr <= addr - e.loadbase
    /\ addr - e.loadbase < s.p_vaddr + s.p_memsz

\* elffile.get_segment_by_address(addr): the first loadable segment covering
\* the (runtime) address, None when there is none
get_segment_by_address(e, addr) ==
    IF \E i \in 1..Len(e.segs) : Covers(e, e.segs[i], addr)
    THEN e.segs[CHOOSE i \in 1..Len(e.segs) :
                    /\ Covers(e, e.segs[i], addr)
                    /\ \A j \in 1..(i - 1) : ~Covers(e, e.segs[j], addr)]
    ELSE NoSegment

\* elffile.get_min_vaddr(): the lowest p_vaddr of the loadable segments
get_min_vaddr(e) ==
    LET L == {i \in 1..Len(e.segs) : e.segs[i].p_type = "PT_LOAD"}
    IN  IF L = {} THEN 0
        ELSE e.segs[CHOOSE i \in L :
                        \A j \in L : e.segs[i].p_vaddr <= e.segs[j].p_vaddr].p_vaddr

----------------------------------------------------------------------------
(* elftools/elf/dynamic.py: DynamicRelocations, DynamicSymbols *)

NoRel == [base |-> 0, size |-> 0, struct |-> 0]
NoSymtab == [base |-> 0, strtab |-> 0]

\* DynamicRelocations.__init__(entry = (base, size), struct, elffile)
DynamicRelocations(e, base, size, struct) ==
    [base |-> base - e.loadbase, size |-> size, struct |-> struct]

\* DynamicRelocations.num_relocations(): Python 2 `/` on two ints floors
num_relocations(rel) == rel.size \div rel.struct

\* DynamicRelocations.get_relocation(n)
get_relocation(e, rel, n) == ReadRel(e, rel.base + n * rel.struct)

\* DynamicSymbols.__init__(entry, elffile, strtab)
DynamicSymbols(e, entry, strtab) ==
    [base |-> entry - e.loadbase, strtab |-> strtab]

\* DynamicSymbols.get_symbol(n): st_name_idx and the resolved st_name are set
\* only when self.strtab is truthy
get_symbol(e, st, n) ==
    LET entry == ReadSym(e, st.base + n * SymSize)
    IN  IF entry = EofSym
        THEN [eof |-> TRUE, named |-> FALSE, st_name |-> "", st_name_idx |-> 0,
              st_value |-> 0]
        ELSE IF st.strtab # 0
        THEN [eof |-> FALSE, named |-> TRUE,
              st_name |-> ReadStr(e, st.strtab + entry.st_name),
              st_name_idx |-> entry.st_name, st_value |-> entry.st_value]
        ELSE [eof |-> FALSE, named |-> FALSE, st_name |-> "",
              st_name_idx |-> entry.st_name, st_value |-> entry.st_value]

----------------------------------------------------------------------------
(* elftools/elf/dynamic.py: DynamicTag and Dynamic.__getitem__               *)
(*                                                                         *)
(* A call threads k = [store, cache, gen, tmp, nreads, readIdx, built]: the *)
(* store's cache and what the call has read and built.  Identity of a      *)
(* DynamicTag object (Python's `is`): an object built by __getitem__ of    *)
(* store s for key t is <<s, t, g>>, the g-th ever built there (gen counts *)
(* them); an object built by get_tag is <<s, "get_tag", i>>, with i an     *)
(* index no object returned by the previous or the present call has.       *)

NoId == <<0, "", 0>>

NoTag == [id |-> NoId, entry |-> EofEntry, kind |-> "none", str |-> "",
          off |-> 0, rel |-> NoRel, symtab |-> NoSymtab]

Raise(k, x) == [k |-> k, res |-> NoTag, exc |-> x]
Return(k, obj) == [k |-> k, res |-> obj, exc |-> ""]

FreshIndex(used) == CHOOSE i \in 1..(Cardinality(used) + 1) :
                        i \notin used /\ \A j \in 1..(i - 1) : j \in used

\* a DynamicTag object leaves __init__; site is the key it was looked up
\* under (dynamic.py:194) or "get_tag" (dynamic.py:218)
NewTag(k, site, entry, kind, str, off, rel, st) ==
    IF site = "get_tag"
    THEN LET i == FreshIndex(k.tmp)
         IN  Return([k EXCEPT !.tmp = @ \cup {i}, !.built = @ + 1],
                    [id |-> <<k.store, site, i>>, entry |-> entry,
                     kind |-> kind, str |-> str, off |-> off, rel |-> rel,
                     symtab |-> st])
    ELSE LET g == (IF site \in DOMAIN k.gen THEN k.gen[site] ELSE 0) + 1
         IN  Return([k EXCEPT !.built = @ + 1,
                              !.gen = [x \in DOMAIN k.gen \cup {site} |->
                                          IF x = site THEN g ELSE k.gen[x]]],
                    [id |-> <<k.store, site, g>>, entry |-> entry,
                     kind |-> kind, str |-> str, off |-> off, rel |-> rel,
                     symtab |-> st])

\* one record read of the dynamic table, at index n
NoteRead(k, n) == [k EXCEPT !.nreads = @ + 1, !.readIdx = @ \cup {n}]

\* a __getitem__ that never finds its key in the cache
CacheHitNever(c, name) == FALSE

\* `if name in self._cache` (dynamic.py:180)
CacheHit(c, name) == name \in DOMAIN c

\* `self._cache[name] = entry` (dynamic.py:195)
CachePut(c, name, obj) ==
    [x \in DOMAIN c \cup {name} |-> IF x = name THEN obj ELSE c[x]]

\* a scan that does not stop at the DT_NULL entry
IsTerminatorNever(entry) == FALSE

\* `if entry.d_tag == 'DT_NULL': break` (dynamic.py:190)
IsTerminator(entry) == entry.d_tag = "DT_NULL"

\* the string-table offset of the string-kind tags (dynamic.py:97-100)
StringTableOffset(e, strtab, dynstr) ==
    IF e.loadbase # 0
    THEN strtab - (dynstr.p_vaddr - get_min_vaddr(e)) - e.loadbase
         + dynstr.p_offset
    ELSE strtab

\* the string-table offset of DT_SYMTAB (dynamic.py:136-137)
SymtabStringTableOffset(e, strtab, dynstr) ==
    dynstr.p_offset + (strtab - e.loadbase - dynstr.p_vaddr)

\* the record layout and the size tag of a relocation tag (dynamic.py:106-117)
RelTag(d_tag) == IF d_tag = "DT_JMPREL" THEN "DT_RELA" ELSE d_tag
SizeTag(d_tag) ==
    IF d_tag = "DT_JMPREL" THEN "DT_PLTRELSZ"
    ELSE IF d_tag = "DT_RELA" THEN "DT_RELASZ" ELSE "DT_RELSZ"
StructOf(tag) == IF tag = "DT_RELA" THEN RelaSize ELSE RelSize

\* one turn of the scan of Dynamic.__getitem__ (dynamic.py:183-196) on the
\* record read at index n: where the scan stops and why, "go" when it goes on
ScanTurn(entry, name, n) ==
    IF entry = EofEntry THEN [n |-> n, how |-> "eof", entry |-> entry]
    ELSE IF IsTerminator(entry) THEN [n |-> n, how |-> "null", entry |-> entry]
    ELSE IF entry.d_tag = name THEN [n |-> n, how |-> "hit", entry |-> entry]
    ELSE [n |-> n, how |-> "go", entry |-> entry]

RECURSIVE ScanFor(_, _, _, _)
ScanNext(e, off0, name, turn) ==
    IF turn.how = "go" THEN ScanFor(e, off0, name, turn.n + 1) ELSE turn

\* `for n in itertools.count()` of Dynamic.__getitem__, from index n
ScanFor(e, off0, name, n) ==
    ScanNext(e, off0, name, ScanTurn(ReadDyn(e, off0 + n * TagSize), name, n))

RECURSIVE NoteReads(_, _)
NoteReads(k, n) == IF n < 0 THEN k ELSE NoteRead(NoteReads(k, n - 1), n)

\* dynamic.py:195-196: the tag just built is cached and returned, unless
\* its construction raised
Cached(name, t) ==
    IF t.exc # "" THEN t
    ELSE Return([t.k EXCEPT !.cache = CachePut(@, name, t.res)], t.res)

\* DynamicTag.__init__ on the entry of a companion tag (DT_STRTAB, DT_RELSZ,
\* DT_RELASZ, DT_PLTRELSZ): none of them is in _HANDLED_TAGS or _REL_TAGS or
\* is DT_SYMTAB, so no branch of __init__ is taken
CompanionTag(k, site, entry) ==
    NewTag(k, site, entry, "raw", "", 0, NoRel, NoSymtab)

\* dynamic.py:190-198 for a companion tag, after the scan
CompanionFound(k, name, sc) ==
    IF sc.how = "eof" THEN Raise(NoteReads(k, sc.n), "ELFParseError")
    ELSE IF sc.how = "null" THEN Raise(NoteReads(k, sc.n), "KeyError")
    ELSE Cached(name, CompanionTag(NoteReads(k, sc.n), name, sc.entry))

\* dyn['DT_STRTAB'], dyn[sizet]: Dynamic.__getitem__ as DynamicTag.__init__
\* calls it
GetCompanion(e, off0, k, name) ==
    IF CacheHit(k.cache, name) THEN Return(k, k.cache[name])
    ELSE CompanionFound(k, name, ScanFor(e, off0, name, 0))

\* dynamic.py:93-103, with g the outcome of dyn['DT_STRTAB'] and dynstr the
\* segment found for its address
StringTag(e, site, entry, g, dynstr) ==
    IF g.exc = "KeyError" THEN Raise(g.k, "ELFError: no DT_STRTAB")
    ELSE IF g.exc # "" THEN Raise(g.k, g.exc)
    ELSE IF dynstr = NoSegment
    THEN Raise(g.k, "ELFError: no DT_STRTAB segment")
    ELSE NewTag(g.k, site, entry, "string",
                ReadStr(e, StringTableOffset(e, g.res.entry.d_ptr, dynstr)
                           + entry.d_ptr),
                StringTableOffset(e, g.res.entry.d_ptr, dynstr),
                NoRel, NoSymtab)

\* dynamic.py:119-126, with g the outcome of dyn[sizet]
RelocationTag(e, site, entry, g) ==
    IF g.exc = "KeyError" THEN Raise(g.k, "ELFError: no size tag")
    ELSE IF g.exc # "" THEN Raise(g.k, g.exc)
    ELSE NewTag(g.k, site, entry, "rel", "", 0,
                DynamicRelocations(e, entry.d_ptr, g.res.entry.d_ptr,
                                   StructOf(RelTag(entry.d_tag))),
                NoSymtab)

\* dynamic.py:133-140, with g the outcome of dyn['DT_STRTAB'] and dynstr the
\* segment found for its address
SymtabTag(e, site, entry, g, dynstr) ==
    IF g.exc = "KeyError" THEN Raise(g.k, "ELFError: no DT_STRTAB")
    ELSE IF g.exc # "" THEN Raise(g.k, g.exc)
    ELSE IF dynstr = NoSegment
    THEN Raise(g.k, "ELFError: no DT_STRTAB segment")
    ELSE NewTag(g.k, site, entry, "symtab", "",
                SymtabStringTableOffset(e, g.res.entry.d_ptr, dynstr), NoRel,
                DynamicSymbols(e, entry.d_ptr,
                    SymtabStringTableOffset(e, g.res.entry.d_ptr, dynstr)))

\* the segment of the address a companion lookup returned
SegmentOf(e, g) == get_segment_by_address(e, g.res.entry.d_ptr)

StringTagOf(e, site, entry, g) == StringTag(e, site, entry, g, SegmentOf(e, g))
SymtabTagOf(e, site, entry, g) == SymtabTag(e, site, entry, g, SegmentOf(e, g))

\* DynamicTag.__init__(entry, elffile, dyn); dyn is the store at offset off0
DynamicTag(e, off0, k, site, entry) ==
    IF entry.d_tag \in _HANDLED_TAGS
    THEN StringTagOf(e, site, entry, GetCompanion(e, off0, k, "DT_STRTAB"))
    ELSE IF entry.d_tag \in _REL_TAGS
    THEN RelocationTag(e, site, entry,
                       GetCompanion(e, off0, k, SizeTag(entry.d_tag)))
    ELSE IF entry.d_tag = "DT_SYMTAB"
    THEN SymtabTagOf(e, site, entry, GetCompanion(e, off0, k, "DT_STRTAB"))
    ELSE NewTag(k, site, entry, "raw", "", 0, NoRel, NoSymtab)

\* dynamic.py:190-198, after the scan
Found(e, off0, k, name, sc) ==
    IF sc.how = "eof" THEN Raise(NoteReads(k, sc.n), "ELFParseError")
    ELSE IF sc.how = "null" THEN Raise(NoteReads(k, sc.n), "KeyError")
    ELSE Cached(name, DynamicTag(e, off0, NoteReads(k, sc.n), name, sc.entry))

\* Dynamic.__getitem__(name)
GetItem(e, off0, k, name) ==
    IF CacheHit(k.cache, name) THEN Return(k, k.cache[name])
    ELSE Found(e, off0, k, name, ScanFor(e, off0, name, 0))

\* dynamic.py:218, with entry the record get_tag read
TagOfRecord(e, off0, k, entry) ==
    IF entry = EofEntry THEN Raise(k, "ELFParseError")
    ELSE DynamicTag(e, off0, k, "get_tag", entry)

\* Dynamic.get_tag(n)
get_tag(e, off0, k, n) ==
    TagOfRecord(e, off0, NoteRead(k, n), ReadDyn(e, off0 + n * TagSize))

\* Dynamic.iter_tags(type), consumed to its end, from index n with `acc` the
\* tags yielded so far: `tags` holds what was yielded
RECURSIVE iter_tags(_, _, _, _, _, _)

Yielded(type, acc, t) ==
    IF type = "None" \/ t.res.entry.d_tag = type THEN Append(acc, t.res) ELSE acc

\* dynamic.py:205-208, with t the outcome of get_tag(n)
IterTurn(e, off0, type, n, acc, t) ==
    IF t.exc # "" THEN [k |-> t.k, tags |-> acc, exc |-> t.exc]
    ELSE IF t.res.entry.d_tag = "DT_NULL"
    THEN [k |-> t.k, tags |-> Yielded(type, acc, t), exc |-> ""]
    ELSE iter_tags(e, off0, t.k, type, n + 1, Yielded(type, acc, t))

iter_tags(e, off0, k, type, n, acc) ==
    IterTurn(e, off0, type, n, acc, get_tag(e, off0, k, n))

\* Dynamic.num_tags(), past the `_num_tags != -1` test, from index n
RECURSIVE count_tags(_, _, _, _)

\* dynamic.py:228-230, with t the outcome of get_tag(n)
CountTurn(e, off0, n, t) ==
    IF t.exc # "" THEN [k |-> t.k, n |-> -1, exc |-> t.exc]
    ELSE IF t.res.entry.d_tag = "DT_NULL"
    THEN [k |-> t.k, n |-> n + 1, exc |-> ""]
    ELSE count_tags(e, off0, t.k, n + 1)

count_tags(e, off0, k, n) ==
    CountTurn(e, off0, n, get_tag(e, off0, k, n))

----------------------------------------------------------------------------
(* The tag stores: two Dynamic instances over one stream of Elf_Dyn        *)
(* records, the second starting one record after the first.               *)

Stores == {1, 2}

Seg(t, v, o, m) == [p_type |-> t, p_vaddr |-> v, p_offset |-> o, p_memsz |-> m]

LoadBases == {0, 1000}

\* two loadable segments whose file offsets differ from their addresses
StoreSegs == <<Seg("PT_LOAD", 32, 0, 32), Seg("PT_LOAD", 96, 32, 32)>>

\* where the stream of Elf_Dyn records starts; the file ends after the last
DynOff == 8 * TagSize

\* the entries a table is drawn from, for load bias lb
StoreEntries(lb) ==
    { Dyn("DT_NULL", 0), Dyn("DT_SONAME", 1),
      Dyn("DT_STRTAB", 100 + lb), Dyn("DT_STRTAB", 300 + lb),
      Dyn("DT_SYMTAB", 40 + lb) }

StoreImage(lb, recs) ==
    [loadbase |-> lb, segs |-> StoreSegs,
     dyn |-> [o \in {DynOff + (i - 1) * TagSize : i \in 1..Len(recs)} |->
                  recs[(o - DynOff) \div TagSize + 1]],
     strs |-> (37 :> "libfoo.so"),
     syms |-> (40 :> Sym(1, 0)),
     rels |-> (48 :> Rel(0, 0)),
     ptrs |-> (0 :> 0),
     size |-> DynOff + Len(recs) * TagSize]

NoCall == [op |-> "none", store |-> 0, arg |-> "", exc |-> "", res |-> NoTag,
           tags |-> <<>>, count |-> -1, nreads |-> 0, readIdx |-> {},
           built |-> 0]

Idle ==
    /\ pc = "idle" /\ segIdx = 0 /\ soname = "?" /\ deps = <<>>
    /\ hooks = <<>> /\ symtab = NoSymtab /\ symIdx = 0 /\ jmprel = NoRel
    /\ relIdx = 0 /\ out = <<>> /\ exc = ""

\* Dynamic.__init__ of both stores
StoreInit ==
    /\ \E lb \in LoadBases :
       \E recs \in [1..StreamLen -> StoreEntries(lb)] :
           elf = StoreImage(lb, recs)
    /\ mappings = <<>>
    /\ offset = [s \in Stores |-> DynOff + (s - 1) * TagSize]
    /\ cache = [s \in Stores |-> <<>>]
    /\ numTags = [s \in Stores |-> -1]
    /\ gen = [s \in Stores |-> <<>>]
    /\ last = NoCall
    /\ Idle

\* the get_tag objects the caller still holds from the previous call
HeldIndices ==
    {last.tags[i].id[3] : i \in {j \in 1..Len(last.tags) :
                                    last.tags[j].id[2] = "get_tag"}}
    \cup (IF last.res.id[2] = "get_tag" THEN {last.res.id[3]} ELSE {})

CallStart(s) == [store |-> s, cache |-> cache[s], gen |-> gen[s],
                 tmp |-> HeldIndices, nreads |-> 0, readIdx |-> {},
                 built |-> 0]

CallEnd(op, s, arg, k, x, res, tags, count) ==
    /\ cache' = [cache EXCEPT ![s] = k.cache]
    /\ gen' = [gen EXCEPT ![s] = k.gen]
    /\ last' = [op |-> op, store |-> s, arg |-> arg, exc |-> x, res |-> res,
                tags |-> tags, count |-> count, nreads |-> k.nreads,
                readIdx |-> k.readIdx, built |-> k.built]
    /\ UNCHANGED <<elf, mappings, offset, runVars>>

LookupNames == {"DT_SONAME", "DT_STRTAB", "DT_SYMTAB", "DT_NEEDED"}

\* seg[name] on a Dynamic: Dynamic.__getitem__
Lookup(s, name) ==
    LET r == GetItem(elf, offset[s], CallStart(s), name)
    IN  /\ CallEnd("getitem", s, name, r.k, r.exc, r.res, <<>>, -1)
        /\ UNCHANGED numTags

\* Dynamic.get_tag(n)
GetTag(s, n) ==
    LET r == get_tag(elf, offset[s], CallStart(s), n)
    IN  /\ CallEnd("get_tag", s, "", r.k, r.exc, r.res, <<>>, n)
        /\ UNCHANGED numTags

\* list(Dynamic.iter_tags())
IterTags(s) ==
    LET r == iter_tags(elf, offset[s], CallStart(s), "None", 0, <<>>)
    IN  /\ CallEnd("iter_tags", s, "", r.k, r.exc, NoTag, r.tags, Len(r.tags))
        /\ UNCHANGED numTags

\* Dynamic.num_tags()
NumTags(s) ==
    IF numTags[s] # -1
    THEN /\ CallEnd("num_tags", s, "", CallStart(s), "", NoTag, <<>>, numTags[s])
         /\ UNCHANGED numTags
    ELSE LET r == count_tags(elf, offset[s], CallStart(s), 0)
         IN  /\ CallEnd("num_tags", s, "", r.k, r.exc, NoTag, <<>>, r.n)
             /\ numTags' = IF r.exc = "" THEN [numTags EXCEPT ![s] = r.n]
                           ELSE numTags

\* the calls made: every operation on the first store, lookups on the second
StoreNext ==
    \/ \E s \in Stores, name \in LookupNames : Lookup(s, name)
    \/ \E n \in 0..(StreamLen - 1) : GetTag(1, n)
    \/ IterTags(1)
    \/ NumTags(1)

StoreSpec == StoreInit /\ [][StoreNext]_vars

----------------------------------------------------------------------------
(* Properties of the tag stores *)

\* the table of store s, read off the stream: the entry at index n
TableEntry(s, n) == ReadDyn(elf, offset[s] + n * TagSize)

\* the index at which a read of store s's table runs into the end of the file
LastIndex(s) == (elf.size - offset[s]) \div TagSize

\* the table of store s holds a DT_NULL entry before the stream ends
WellFormed(s) ==
    \E n \in 0..LastIndex(s) :
        /\ TableEntry(s, n).d_tag = "DT_NULL"
        /\ \A m \in 0..(n - 1) : TableEntry(s, m) # EofEntry

FirstNull(s) ==
    CHOOSE n \in 0..LastIndex(s) :
        /\ TableEntry(s, n).d_tag = "DT_NULL"
        /\ \A m \in 0..(n - 1) : TableEntry(s, m).d_tag # "DT_NULL"

\* C2: on a table holding a DT_NULL entry, num_tags() returns the number of
\* entries iter_tags() yields, the last of them is the DT_NULL entry, and
\* num_tags, iter_tags and lookup by tag read no record past the first DT_NULL
C2_CountMatchesIteration ==
    \A s \in Stores :
        (WellFormed(s) /\ last.store = s) =>
            /\ last.op = "num_tags" =>
                  LET it == iter_tags(elf, offset[s], CallStart(s), "None", 0, <<>>)
                  IN  /\ last.exc = "" /\ it.exc = ""
                      /\ last.count = Len(it.tags)
                      /\ it.tags[Len(it.tags)].entry.d_tag = "DT_NULL"
            /\ last.op = "iter_tags" =>
                  /\ last.exc = ""
                  /\ Len(last.tags) = FirstNull(s) + 1
                  /\ last.tags[Len(last.tags)].entry.d_tag = "DT_NULL"
            /\ last.op \in {"num_tags", "iter_tags", "getitem"} =>
                  \A n \in last.readIdx : n <= FirstNull(s)

\* C3: a __getitem__(tag) that follows a __getitem__(tag) of the same store
\* which returned an object returns that very object, reads no record of the
\* table and constructs no DynamicTag
C3_SecondLookupFromCache ==
    [][ ( /\ last.op = "getitem" /\ last.exc = ""
          /\ last'.op = "getitem"
          /\ last'.store = last.store /\ last'.arg = last.arg )
        => ( /\ last'.exc = ""
             /\ last'.res = last.res
             /\ last'.nreads = 0
             /\ last'.built = 0 ) ]_vars

\* C3's case: a lookup of DT_SONAME answered from the cache
C3_Witness ==
    /\ last.op = "getitem" /\ last.arg = "DT_SONAME" /\ last.exc = ""
    /\ last.nreads = 0 /\ last.res.kind = "string"

\* the first index of store s's table holding tag t, before any DT_NULL
HasBeforeNull(s, t) ==
    \E n \in 0..LastIndex(s) :
        /\ TableEntry(s, n).d_tag = t
        /\ \A m \in 0..(n - 1) : TableEntry(s, m).d_tag \notin {"DT_NULL", "<eof>", t}

FirstBeforeNull(s, t) ==
    CHOOSE n \in 0..LastIndex(s) :
        /\ TableEntry(s, n).d_tag = t
        /\ \A m \in 0..(n - 1) : TableEntry(s, m).d_tag \notin {"DT_NULL", "<eof>", t}

Unidentified(obj) == [obj EXCEPT !.id = NoId]

CacheInv ==
    \A s \in Stores : \A t \in DOMAIN cache[s] :
        /\ HasBeforeNull(s, t)
        /\ cache[s][t].entry = TableEntry(s, FirstBeforeNull(s, t))
        /\ Unidentified(cache[s][t]) =
             Unidentified(DynamicTag(elf, offset[s], CallStart(s), t,
                                     TableEntry(s, FirstBeforeNull(s, t))).res)

CacheStep ==
    /\ \A s \in Stores : \A t \in DOMAIN cache[s] :
           t \in DOMAIN cache'[s] /\ cache'[s][t] = cache[s][t]
    /\ (last'.op = "getitem" /\ last'.exc # "") =>
           last'.arg \notin DOMAIN cache'[last'.store]
    /\ \A s \in Stores : s # last'.store => cache'[s] = cache[s]

\* C10: every cache entry under key t is the resolved form of the first
\* entry of the store's table with tag t before the DT_NULL entry; a failed
\* lookup adds no entry for the requested tag; an entry is never replaced or
\* removed; a call on one store leaves the other store's cache alone
C10_CacheConsistency == []CacheInv /\ [][CacheStep]_vars

\* C10's case: a store with two cache entries, the other store with one,
\* and a lookup that has just failed
C10_Witness ==
    /\ last.op = "getitem" /\ last.exc # ""
    /\ \E s \in Stores : Cardinality(DOMAIN cache[s]) >= 2
    /\ \A s \in Stores : cache[s] # <<>>

\* the file offset of virtual address v through the segment covering it
to_file_offset(v) ==
    LET seg == get_segment_by_address(elf, v + elf.loadbase)
    IN  seg.p_offset + (v - seg.p_vaddr)

\* C8: the string-table offset used by a string-kind tag and by DT_SYMTAB is
\* the segment translation of DT_STRTAB's address less the load bias
C8_StringTableTranslated ==
    \A s \in Stores : \A t \in DOMAIN cache[s] :
        cache[s][t].kind \in {"string", "symtab"} =>
            cache[s][t].off =
                to_file_offset(cache[s]["DT_STRTAB"].entry.d_ptr - elf.loadbase)

----------------------------------------------------------------------------
(* DynamicRelocations.num_relocations on relocation tables of every size *)

RelocInit ==
    /\ elf = StoreImage(0, <<>>)
    /\ \E size \in 0..MaxRelSize, struct \in {RelaSize, RelSize} :
           jmprel = DynamicRelocations(elf, 48, size, struct)
    /\ mappings = <<>>
    /\ offset = [s \in Stores |-> DynOff]
    /\ cache = [s \in Stores |-> <<>>]
    /\ numTags = [s \in Stores |-> -1]
    /\ gen = [s \in Stores |-> <<>>]
    /\ last = NoCall
    /\ pc = "idle" /\ segIdx = 0 /\ soname = "?" /\ deps = <<>>
    /\ hooks = <<>> /\ symtab = NoSymtab /\ symIdx = 0
    /\ relIdx = 0 /\ out = <<>> /\ exc = ""

\* a call of num_relocations() on the table: it returns, it never raises
NumRelocations ==
    /\ last' = [NoCall EXCEPT !.op = "num_relocations",
                              !.count = num_relocations(jmprel)]
    /\ UNCHANGED <<elf, mappings, offset, cache, numTags, gen, runVars>>

RelocSpec == RelocInit /\ [][NumRelocations]_vars

\* C7: num_relocations() returns exactly size / record size, and a size that
\* is no multiple of the record size is reported instead of truncated
C7_ExactCount ==
    last.op = "num_relocations" =>
        IF jmprel.size % jmprel.struct = 0
        THEN last.exc = "" /\ last.count * jmprel.struct = jmprel.size
        ELSE last.exc # ""

----------------------------------------------------------------------------
(* scripts/coreplt.py: the hook detector, one run over one image           *)
(*                                                                         *)
(* The image: a loadable segment at address 0 holding the string table     *)
(* (64), the symbol table (96), the PLT relocations (192) and two dynamic  *)
(* tables (272, 400), each with its PT_DYNAMIC segment; and a loadable     *)
(* segment at address 1024, file offset 512, holding the GOT slots.        *)

RunSegs == <<Seg("PT_LOAD", 0, 0, 512), Seg("PT_DYNAMIC", 272, 272, 112),
             Seg("PT_LOAD", 1024, 512, 64), Seg("PT_DYNAMIC", 400, 400, 80)>>

\* the store of the DynamicSegment at index i of iter_segments()
StoreOf(i) == i \div 2

Opt(b, entry) == IF b THEN <<entry>> ELSE <<>>

Flags1 == [soname : BOOLEAN, strtab : BOOLEAN, symtab : BOOLEAN,
           jmprel : BOOLEAN, pltrelsz : BOOLEAN]
Flags2 == [soname : BOOLEAN, symtab : BOOLEAN]

Table1(lb, f) ==
    <<Dyn("DT_NEEDED", 11)>> \o Opt(f.soname, Dyn("DT_SONAME", 1))
    \o Opt(f.strtab, Dyn("DT_STRTAB", 64 + lb))
    \o Opt(f.symtab, Dyn("DT_SYMTAB", 96 + lb))
    \o Opt(f.jmprel, Dyn("DT_JMPREL", 192 + lb))
    \o Opt(f.pltrelsz, Dyn("DT_PLTRELSZ", MaxRelocs * RelaSize))
    \o <<Dyn("DT_NULL", 0)>>

Table2(lb, g) ==
    <<Dyn("DT_NEEDED", 11)>> \o Opt(g.soname, Dyn("DT_SONAME", 1))
    \o <<Dyn("DT_STRTAB", 64 + lb)>>
    \o Opt(g.symtab, Dyn("DT_SYMTAB", 96 + lb))
    \o <<Dyn("DT_NULL", 0)>>

Place(base, size, recs) ==
    [o \in {base + (i - 1) * size : i \in 1..Len(recs)} |->
        recs[(o - base) \div size + 1]]

\* what a GOT slot can hold: two addresses in the rwx region, one in the r-x
\* region, one in no region
Targets == {5000, 5008, 6000, 7000}

\* a PLT relocation: its GOT slot lies in the second loadable segment, or at
\* an address no segment covers
RelChoices == {c \in [mapped : BOOLEAN, target : Targets] :
                  c.mapped \/ c.target = 7000}

RunImage(lb, f, g, exported, ch) ==
    [loadbase |-> lb, segs |-> RunSegs,
     dyn |-> Place(272, TagSize, Table1(lb, f))
             @@ Place(400, TagSize, Table2(lb, g)),
     strs |-> (65 :> "libfoo.so" @@ 75 :> "libc.so" @@ 83 :> "puts"
               @@ 88 :> "exit"),
     syms |-> Place(96, SymSize,
                    <<Sym(0, 0), Sym(19, IF exported THEN 200 ELSE 0),
                      Sym(24, 0), Sym(29, 0)>>),
     rels |-> [o \in {192 + i * RelaSize : i \in 0..(MaxRelocs - 1)} |->
                  LET i == (o - 192) \div RelaSize
                  IN  Rel(IF ch[i].mapped THEN 1032 + i * PtrSize ELSE 2000,
                          1 + (i % 2))],
     ptrs |-> [o \in {520 + i * PtrSize : i \in 0..(MaxRelocs - 1)} |->
                  ch[(o - 520) \div PtrSize].target],
     size |-> 576]

\* the regions read from stdin: (start, end, prot)
RunMappings == <<[start |-> 4992, end |-> 5120, prot |-> "rwx"],
                 [start |-> 5984, end |-> 6144, prot |-> "r-x"]>>

\* DynamicSegment.__init__: the position handed to Dynamic.__init__
DynamicSegmentOffset(e, seg) ==
    IF e.loadbase # 0 THEN seg.p_vaddr - get_min_vaddr(e) ELSE seg.p_offset

\* coreplt.py:15-33: the mappings are parsed, the ELF file is opened
RunInit ==
    /\ \E lb \in LoadBases, f \in Flags1, g \in Flags2, exported \in BOOLEAN,
          ch \in [0..(MaxRelocs - 1) -> RelChoices] :
           elf = RunImage(lb, f, g, exported, ch)
    /\ mappings = RunMappings
    /\ offset = [s \in Stores |-> DynamicSegmentOffset(elf, elf.segs[2 * s])]
    /\ cache = [s \in Stores |-> <<>>]
    /\ numTags = [s \in Stores |-> -1]
    /\ gen = [s \in Stores |-> <<>>]
    /\ last = NoCall
    /\ pc = "seg" /\ segIdx = 1 /\ soname = "?" /\ deps = <<>>
    /\ hooks = <<>> /\ symtab = NoSymtab /\ symIdx = 0 /\ jmprel = NoRel
    /\ relIdx = 0 /\ out = <<>> /\ exc = ""

\* a handler `except KeyError` catches KeyError and nothing else
CaughtKeyErrorNever(x) == FALSE

CaughtKeyError(x) == x = "KeyError"

Line(kind, addr, text) == [kind |-> kind, addr |-> addr, text |-> text]

\* an exception nothing catches ends the run with a traceback
Abort(s, k, x) ==
    /\ pc' = "aborted" /\ exc' = x
    /\ cache' = [cache EXCEPT ![s] = k.cache]
    /\ gen' = [gen EXCEPT ![s] = k.gen]

Keep(s, k) ==
    /\ cache' = [cache EXCEPT ![s] = k.cache]
    /\ gen' = [gen EXCEPT ![s] = k.gen]
    /\ exc' = exc

\* `for seg in elf.iter_segments(): if not isinstance(seg, DynamicSegment):
\* continue` (coreplt.py:35-37)
ForSegment ==
    /\ pc = "seg"
    /\ IF segIdx > Len(elf.segs) THEN pc' = "output" /\ segIdx' = segIdx
       ELSE IF elf.segs[segIdx].p_type # "PT_DYNAMIC"
       THEN pc' = "seg" /\ segIdx' = segIdx + 1
       ELSE pc' = "soname" /\ segIdx' = segIdx
    /\ UNCHANGED <<elf, mappings, offset, cache, numTags, gen, last, soname,
                   deps, hooks, symtab, symIdx, jmprel, relIdx, out, exc>>

\* coreplt.py:39-43
Soname ==
    /\ pc = "soname"
    /\ LET s == StoreOf(segIdx)
           r == GetItem(elf, offset[s], CallStart(s), "DT_SONAME")
       IN  IF r.exc = ""
           THEN soname' = r.res.str /\ pc' = "needed" /\ Keep(s, r.k)
           ELSE IF CaughtKeyError(r.exc)
           THEN soname' = "main" /\ pc' = "needed" /\ Keep(s, r.k)
           ELSE soname' = soname /\ Abort(s, r.k, r.exc)
    /\ UNCHANGED <<elf, mappings, offset, numTags, last, segIdx, deps, hooks,
                   symtab, symIdx, jmprel, relIdx, out>>

RECURSIVE NeededOf(_)
NeededOf(tags) ==
    IF tags = <<>> THEN <<>>
    ELSE (IF Head(tags).entry.d_tag = "DT_NEEDED" THEN <<Head(tags).str>>
          ELSE <<>>) \o NeededOf(Tail(tags))

\* coreplt.py:45-48
Needed ==
    /\ pc = "needed"
    /\ LET s == StoreOf(segIdx)
           r == iter_tags(elf, offset[s], CallStart(s), "None", 0, <<>>)
       IN  /\ deps' = deps \o NeededOf(r.tags)
           /\ IF r.exc = "" THEN pc' = "symtab" /\ Keep(s, r.k)
              ELSE Abort(s, r.k, r.exc)
    /\ UNCHANGED <<elf, mappings, offset, numTags, last, segIdx, soname, hooks,
                   symtab, symIdx, jmprel, relIdx, out>>

\* coreplt.py:50-54
Symtab ==
    /\ pc = "symtab"
    /\ LET s == StoreOf(segIdx)
           r == GetItem(elf, offset[s], CallStart(s), "DT_SYMTAB")
       IN  IF r.exc = ""
           THEN /\ symtab' = r.res.symtab /\ symIdx' = 0 /\ pc' = "walk"
                /\ segIdx' = segIdx /\ Keep(s, r.k)
           ELSE IF CaughtKeyError(r.exc)
           THEN /\ pc' = "seg" /\ segIdx' = segIdx + 1
                /\ UNCHANGED <<symtab, symIdx>> /\ Keep(s, r.k)
           ELSE /\ UNCHANGED <<symtab, symIdx, segIdx>> /\ Abort(s, r.k, r.exc)
    /\ UNCHANGED <<elf, mappings, offset, numTags, last, soname, deps, hooks,
                   jmprel, relIdx, out>>

\* coreplt.py:56-61, one turn of the loop
Walk ==
    /\ pc = "walk"
    /\ LET sym == get_symbol(elf, symtab, symIdx)
       IN  IF sym.eof
           THEN pc' = "aborted" /\ exc' = "ELFParseError"
                /\ UNCHANGED <<symIdx, out>>
           ELSE IF ~sym.named /\ sym.st_name_idx = 0
           THEN pc' = "aborted" /\ exc' = "KeyError: st_name_idx"
                /\ UNCHANGED <<symIdx, out>>
           ELSE IF sym.named /\ sym.st_name = "" /\ sym.st_name_idx > 0
           THEN pc' = "jmprel" /\ UNCHANGED <<symIdx, out, exc>>
           ELSE /\ out' = IF sym.st_value # 0
                          THEN Append(out, Line("~", sym.st_value + elf.loadbase,
                                                sym.st_name))
                          ELSE out
                /\ symIdx' = symIdx + 1
                /\ UNCHANGED <<pc, exc>>
    /\ UNCHANGED <<elf, mappings, offset, cache, numTags, gen, last, segIdx,
                   soname, deps, hooks, symtab, jmprel, relIdx>>

\* coreplt.py:63-66
Jmprel ==
    /\ pc = "jmprel"
    /\ LET s == StoreOf(segIdx)
           r == GetItem(elf, offset[s], CallStart(s), "DT_JMPREL")
       IN  IF r.exc = ""
           THEN /\ jmprel' = r.res.rel /\ relIdx' = 0 /\ pc' = "reloc"
                /\ segIdx' = segIdx /\ Keep(s, r.k)
           ELSE IF CaughtKeyError(r.exc)
           THEN /\ pc' = "seg" /\ segIdx' = segIdx + 1
                /\ UNCHANGED <<jmprel, relIdx>> /\ Keep(s, r.k)
           ELSE /\ UNCHANGED <<jmprel, relIdx, segIdx>> /\ Abort(s, r.k, r.exc)
    /\ UNCHANGED <<elf, mappings, offset, numTags, last, soname, deps, hooks,
                   symtab, symIdx, out>>

\* `hooks[fnaddr] = sym['st_name']` (coreplt.py:91)
HooksPut(h, fnaddr, name) ==
    [a \in DOMAIN h \cup {fnaddr} |-> IF a = fnaddr THEN name ELSE h[a]]

\* coreplt.py:85-86: some region holds fnaddr and is rwx
InRwxRegion(fnaddr) ==
    \E i \in 1..Len(mappings) :
        /\ mappings[i].start <= fnaddr /\ mappings[i].end > fnaddr
        /\ mappings[i].prot = "rwx"

\* coreplt.py:68-91, one turn of the loop over iter_relocations()
Reloc ==
    /\ pc = "reloc"
    /\ IF relIdx >= num_relocations(jmprel)
       THEN pc' = "seg" /\ segIdx' = segIdx + 1
            /\ UNCHANGED <<relIdx, hooks, exc>>
       ELSE
        LET reloc == get_relocation(elf, jmprel, relIdx)
            seg == get_segment_by_address(elf, reloc.r_offset + elf.loadbase)
            off == seg.p_offset + (reloc.r_offset - seg.p_vaddr)
            fnaddr == ReadPtr(elf, off)
            sym == get_symbol(elf, symtab, reloc.r_info_sym)
        IN  IF reloc = EofRel
            THEN pc' = "aborted" /\ exc' = "ELFParseError"
                 /\ UNCHANGED <<relIdx, hooks, segIdx>>
            ELSE IF seg = NoSegment
            THEN pc' = "aborted" /\ exc' = "TypeError"
                 /\ UNCHANGED <<relIdx, hooks, segIdx>>
            ELSE IF sym.eof
            THEN pc' = "aborted" /\ exc' = "ELFParseError"
                 /\ UNCHANGED <<relIdx, hooks, segIdx>>
            ELSE /\ hooks' = IF InRwxRegion(fnaddr)
                             THEN HooksPut(hooks, fnaddr, sym.st_name)
                             ELSE hooks
                 /\ relIdx' = relIdx + 1
                 /\ UNCHANGED <<pc, exc, segIdx>>
    /\ UNCHANGED <<elf, mappings, offset, cache, numTags, gen, last, soname,
                   deps, symtab, symIdx, jmprel, out>>

RECURSIVE DepLines(_)
DepLines(ds) ==
    IF ds = <<>> THEN <<>>
    ELSE <<Line("<", 0, Head(ds))>> \o DepLines(Tail(ds))

\* the orders hooks.iteritems() can yield the keys in
KeyOrders(h) ==
    {q \in [1..Cardinality(DOMAIN h) -> DOMAIN h] :
        \A i, j \in DOMAIN q : i # j => q[i] # q[j]}

\* coreplt.py:94-100
Output ==
    /\ pc = "output"
    /\ \E q \in KeyOrders(hooks) :
           out' = out \o <<Line("=", 0, soname)>> \o DepLines(deps)
                  \o [i \in DOMAIN q |-> Line("!", q[i], hooks[q[i]])]
    /\ pc' = "done"
    /\ UNCHANGED <<elf, mappings, offset, cache, numTags, gen, last, segIdx,
                   soname, deps, hooks, symtab, symIdx, jmprel, relIdx, exc>>

RunNext ==
    \/ ForSegment
    \/ Soname
    \/ Needed
    \/ Symtab
    \/ Walk
    \/ Jmprel
    \/ Reloc
    \/ Output

RunSpec == RunInit /\ [][RunNext]_vars

----------------------------------------------------------------------------
(* Properties of the hook detector *)

\* the value held by the GOT slot of relocation r
GotValue(r) == ReadPtr(elf, to_file_offset(r.r_offset))

HookLine(target, name) == \E j \in DOMAIN out : out[j] = Line("!", target, name)

\* C1: when the run is over, for every PLT relocation r that was scanned the
\* output holds a hook line with the name of r's symbol and the value of r's
\* GOT slot if and only if that value lies in an rwx region
C1_HookPerQualifyingRelocation ==
    pc = "done" =>
        \A s \in Stores :
            "DT_JMPREL" \in DOMAIN cache[s] =>
                \A i \in 0..(num_relocations(cache[s]["DT_JMPREL"].rel) - 1) :
                    LET r == get_relocation(elf, cache[s]["DT_JMPREL"].rel, i)
                        name == get_symbol(elf, cache[s]["DT_SYMTAB"].symtab,
                                           r.r_info_sym).st_name
                    IN  HookLine(GotValue(r), name) <=> InRwxRegion(GotValue(r))

\* the dynamic segments the loop has gone through when the run is over
DynamicSegments == {i \in 1..Len(elf.segs) : elf.segs[i].p_type = "PT_DYNAMIC"}

\* the value of tag t in the table of store s
TagValue(s, t) == TableEntry(s, FirstBeforeNull(s, t)).d_ptr

\* the GOT slot of every relocation of store s's PLT relocation table lies
\* in a segment
SlotsMapped(s) ==
    \A i \in 0..((TagValue(s, "DT_PLTRELSZ") \div RelaSize) - 1) :
        get_segment_by_address(elf,
            ReadRel(elf, TagValue(s, "DT_JMPREL") - elf.loadbase
                         + i * RelaSize).r_offset + elf.loadbase) # NoSegment

\* nothing but DT_SONAME, DT_SYMTAB or DT_JMPREL is missing from the image:
\* every dynamic table has its DT_STRTAB, a DT_JMPREL has its DT_PLTRELSZ,
\* and the GOT slots of the relocations that get scanned are mapped
OtherwiseSound ==
    \A i \in DynamicSegments :
        /\ HasBeforeNull(StoreOf(i), "DT_STRTAB")
        /\ HasBeforeNull(StoreOf(i), "DT_JMPREL") =>
               /\ HasBeforeNull(StoreOf(i), "DT_PLTRELSZ")
               /\ HasBeforeNull(StoreOf(i), "DT_SYMTAB") => SlotsMapped(StoreOf(i))

C4Inv ==
    /\ pc = "aborted" => exc # "KeyError"
    /\ OtherwiseSound => pc # "aborted"
    /\ pc = "done" =>
          /\ Len(deps) = Cardinality({i \in DynamicSegments :
                                         HasBeforeNull(StoreOf(i), "DT_NEEDED")})
          /\ \E j \in DOMAIN out : out[j] = Line("=", 0, soname)

C4Step ==
    /\ (pc = "soname" /\ ~HasBeforeNull(StoreOf(segIdx), "DT_SONAME")) =>
           pc' = "needed" /\ soname' = "main"
    /\ (pc = "symtab" /\ ~HasBeforeNull(StoreOf(segIdx), "DT_SYMTAB")) =>
           /\ pc' = "seg" /\ segIdx' = segIdx + 1
           /\ deps' = deps /\ hooks' = hooks
    /\ (pc = "jmprel" /\ ~HasBeforeNull(StoreOf(segIdx), "DT_JMPREL")) =>
           pc' = "seg" /\ segIdx' = segIdx + 1 /\ hooks' = hooks

\* C4: a dynamic segment without DT_SONAME, DT_SYMTAB or DT_JMPREL never
\* aborts the run: no DT_SONAME gives the label "main"; no DT_SYMTAB keeps
\* the dependencies collected, adds no hook and goes to the next segment; no
\* DT_JMPREL adds no hook and goes to the next segment; the run is never
\* ended by a KeyError, is not ended by any exception when nothing else is
\* missing from the image, and ends with the dependencies of every dynamic
\* segment and the label written
C4_OptionalTagsNonFatal == []C4Inv /\ [][C4Step]_vars

\* C4's case: the run is over, the first dynamic segment had no DT_SYMTAB,
\* the second no DT_SONAME and no DT_JMPREL
C4_Witness ==
    /\ pc = "done" /\ soname = "main" /\ Len(deps) = 2
    /\ ~HasBeforeNull(1, "DT_SYMTAB")
    /\ ~HasBeforeNull(2, "DT_SONAME")
    /\ HasBeforeNull(2, "DT_SYMTAB") /\ ~HasBeforeNull(2, "DT_JMPREL")

\* C5: a missing DT_STRTAB or a missing relocation size tag does not end
\* the run
C5_MissingCompanionNonFatal ==
    pc = "aborted" => exc \notin {"ELFError: no DT_STRTAB", "ELFError: no size tag"}

Rank(line) == IF line.kind = "=" THEN 1 ELSE IF line.kind = "<" THEN 2
              ELSE IF line.kind = "!" THEN 3 ELSE 0

\* C6: the standard output of a run that reached its end is `=soname` once
\* and first, then the `<` lines, then the `!` lines, and no other line
C6_StdoutOrder ==
    pc = "done" =>
        /\ out[1].kind = "="
        /\ Cardinality({j \in DOMAIN out : out[j].kind = "="}) = 1
        /\ \A j \in DOMAIN out : Rank(out[j]) # 0
        /\ \A i, j \in DOMAIN out : i < j => Rank(out[i]) <= Rank(out[j])

\* C9: a relocation whose GOT slot no segment covers does not end the run
C9_UnmappedSlotSkipped ==
    pc = "aborted" => exc # "TypeError"

====
